---- MODULE Spec2Model ----
(***************************************************************************)
(* A model of FluidSim (fluidsim.h / fluidsim.cpp): the variational        *)
(* pressure / viscosity fluid simulator on a staggered (MAC) grid.         *)
(*                                                                         *)
(* Numbers.  The program computes in `float'.  The model computes in exact *)
(* rational arithmetic: a value is a pair <<n, d>> with d > 0 in lowest    *)
(* terms, and a division by zero gives the float specials (infinity, NaN). *)
(* Float rounding is modelled where a float is stored into the state that  *)
(* is carried from one sub-step to the next: every store into u, v,        *)
(* liquid_phi and particles, and the Vec2f values get_velocity and         *)
(* trace_rk2 take and hand back, round to a fixed grid of values (RRound), *)
(* and so does sqrt.  The right-hand sides themselves, the weights, the    *)
(* volume fractions and the two linear systems (double precision in the    *)
(* program) are exact.                                                     *)
(***************************************************************************)
EXTENDS Integers, Sequences, FiniteSets, TLC

(***************************************************************************)
(* Grid dimensions handed to initialize(width, ni_, nj_).                  *)
(***************************************************************************)
NI == 4
NJ == 3

VARIABLES
    pc,                 \* the position of the running call
    dx,                 \* cell size, width / ni
    u, v,               \* face velocities, shapes (ni+1, nj) and (ni, nj+1)
    nodal_solid_phi,    \* solid signed distance at the nodes, shape (ni+1, nj+1)
    u_valid, v_valid,   \* validity flags written by solve_pressure
    liquid_phi,         \* liquid signed distance at the cell centres, shape (ni, nj)
    u_weights, v_weights,
    u_vol, v_vol, c_vol, n_vol,
    viscosity,
    particles,
    matrix, rhs, pressure,
    vmatrix, vrhs, velocities,
    t, dt, substep,     \* locals of advance(dt)
    success, vsuccess,  \* what the solver returned to solve_pressure / solve_viscosity
    log,                \* what the program printed as warnings
    stages,             \* history: the stages run so far in the current sub-step
    calls,              \* history: the number of advance calls made
    grid, valid, layers, valid0,     \* the frame of a call of extrapolate(grid, valid)
    fi_left, fi_right, fi_result,    \* the frame of a call of fraction_inside(fi_left, fi_right)
    ni, nj,             \* the grid size of a walk through the loops of the two solves
    iter,               \* the number of loop iterations the walk has made
    accessed            \* the array elements and vector indices the last iteration used

(***************************************************************************)
(* Exact rationals, standing for the program's float values.               *)
(***************************************************************************)
Abs(x) == IF x < 0 THEN -x ELSE x

RECURSIVE Gcd(_, _)
Gcd(a, b) == IF b = 0 THEN a ELSE Gcd(b, a % b)

\* d = 0 stands for the float specials: <<1, 0>> is +infinity, <<-1, 0>>
\* -infinity and <<0, 0>> NaN (0/0); they propagate through the operators.
Norm(n, d) ==
    IF d = 0 THEN <<(IF n > 0 THEN 1 ELSE IF n < 0 THEN -1 ELSE 0), 0>>
    ELSE LET g == Gcd(Abs(n), Abs(d))
             s == IF d < 0 THEN -1 ELSE 1
         IN  <<(s * n) \div g, (s * d) \div g>>

R(k) == <<k, 1>>
Q(n, d) == Norm(n, d)
RZero == <<0, 1>>
ROne == <<1, 1>>

RAdd(a, b) ==
    IF a[2] = 0 \/ b[2] = 0 THEN Norm(a[1] * b[2] + b[1] * a[2], a[2] * b[2])
    ELSE LET g == Gcd(a[2], b[2])
         IN  Norm(a[1] * (b[2] \div g) + b[1] * (a[2] \div g), (a[2] \div g) * b[2])
RSub(a, b) == RAdd(a, <<-b[1], b[2]>>)
RMul(a, b) ==
    IF a[2] = 0 \/ b[2] = 0 THEN Norm(a[1] * b[1], a[2] * b[2])
    ELSE LET g1 == Gcd(Abs(a[1]), b[2])
             g2 == Gcd(Abs(b[1]), a[2])
         IN  Norm((a[1] \div g1) * (b[1] \div g2), (a[2] \div g2) * (b[2] \div g1))
RDiv(a, b) == RMul(a, Norm(b[2], b[1]))
RNeg(a) == <<-a[1], a[2]>>
RLt(a, b) ==
    IF a[2] = 0 \/ b[2] = 0 THEN a[1] * b[2] < b[1] * a[2]
    ELSE LET g == Gcd(a[2], b[2])
         IN  a[1] * (b[2] \div g) < b[1] * (a[2] \div g)
NaN == <<0, 0>>
Inf == <<1, 0>>
RLe(a, b) == a # NaN /\ b # NaN /\ (a = b \/ RLt(a, b))
RAbs(a) == <<Abs(a[1]), a[2]>>
RMax(a, b) == IF RLt(a, b) THEN b ELSE a
RMin(a, b) == IF RLt(b, a) THEN b ELSE a
RIsNeg(a) == a[1] < 0
RIsPos(a) == a[1] > 0
RIsZero(a) == a[1] = 0 /\ a[2] # 0
sqr(a) == RMul(a, a)

\* sqrt: exact on the squares of rationals, and otherwise rounded down to a
\* multiple of 1 / SqrtDen (the model's stand-in for float rounding; an
\* operand too long for the model's integers is shortened first).
SqrtDen == 20
RECURSIVE ISqrtFrom(_, _, _)
ISqrtFrom(x, lo, hi) ==
    IF lo >= hi THEN lo
    ELSE LET mid == (lo + hi + 1) \div 2
         IN  IF mid * mid <= x THEN ISqrtFrom(x, mid, hi) ELSE ISqrtFrom(x, lo, mid - 1)
ISqrt(x) == ISqrtFrom(x, 0, IF x < 46340 THEN x ELSE 46340)
RSqrt(a) ==
    IF a[2] = 0 \/ a[1] < 0 THEN NaN
    ELSE LET rn == ISqrt(a[1])
             rd == ISqrt(a[2])
             f == (a[1] \div (2147483647 \div (SqrtDen * SqrtDen))) + 1
             n1 == a[1] \div f
             d1 == a[2] \div f
         IN  IF rn * rn = a[1] /\ rd * rd = a[2] THEN <<rn, rd>>
             ELSE IF d1 = 0 THEN Inf
             ELSE Norm(ISqrt((n1 * SqrtDen * SqrtDen) \div d1), SqrtDen)
\* The value of the rounding grid nearest to a (multiples of 1 / RoundDen).
RoundDen == 64
RRound(a) ==
    IF a[2] = 0 THEN a
    ELSE LET big == IF Abs(a[1]) > a[2] THEN Abs(a[1]) ELSE a[2]
             f == (big \div 1000000) + 1
             n1 == a[1] \div f
             d1 == a[2] \div f
         IN  IF RoundDen % a[2] = 0 THEN a
             ELSE Norm((2 * n1 * RoundDen + d1) \div (2 * d1), RoundDen)
VRound(a) == <<RRound(a[1]), RRound(a[2])>>
clamp(a, lower, upper) ==
    IF RLt(a, lower) THEN lower ELSE IF RLt(upper, a) THEN upper ELSE a

(***************************************************************************)
(* fraction_inside: the fraction of the segment between two signed         *)
(* distance samples that lies on the negative side.                        *)
(***************************************************************************)
fraction_inside_swapped(phi_left, phi_right) ==
    IF RIsNeg(phi_left) /\ RIsNeg(phi_right) THEN ROne
    ELSE IF RIsNeg(phi_left) /\ ~RIsNeg(phi_right)
         THEN RDiv(phi_left, RSub(phi_left, phi_right))
    ELSE IF ~RIsNeg(phi_left) /\ RIsNeg(phi_right)
         THEN RDiv(phi_left, RSub(phi_right, phi_left))
    ELSE RZero

fraction_inside(phi_left, phi_right) ==
    IF RIsNeg(phi_left) /\ RIsNeg(phi_right) THEN ROne
    ELSE IF RIsNeg(phi_left) /\ ~RIsNeg(phi_right)
         THEN RDiv(phi_left, RSub(phi_left, phi_right))
    ELSE IF ~RIsNeg(phi_left) /\ RIsNeg(phi_right)
         THEN RDiv(phi_right, RSub(phi_right, phi_left))
    ELSE RZero

(***************************************************************************)
(* Array2 index sets: an Array2 of shape (ni, nj) is a function on         *)
(* Idx(ni, nj), element (i, j) written a[<<i, j>>].                        *)
(***************************************************************************)
Idx(ni_, nj_) == (0 .. ni_ - 1) \X (0 .. nj_ - 1)

\* f itself, as a table of its values.
Eager(f) == f @@ <<>>

(***************************************************************************)
(* extrapolate(grid, valid): ExtrapLayers Jacobi-style passes.  A pass     *)
(* reads old_valid (the flags at the start of the pass) and grid (not      *)
(* written during the pass) and writes temp_grid and valid.                *)
(***************************************************************************)
ExtrapLayers == 10

ExtrapInterior(p, gni, gnj) ==
    p[1] >= 1 /\ p[1] <= gni - 2 /\ p[2] >= 1 /\ p[2] <= gnj - 2

ExtrapNbrsNoLeft(p) ==
    << <<p[1] + 1, p[2]>>, <<p[1], p[2] + 1>>, <<p[1], p[2] - 1>> >>

ExtrapNbrs(p) ==
    << <<p[1] + 1, p[2]>>, <<p[1] - 1, p[2]>>, <<p[1], p[2] + 1>>, <<p[1], p[2] - 1>> >>

RECURSIVE RSumSeq(_)
RSumSeq(s) == IF s = <<>> THEN RZero ELSE RAdd(Head(s), RSumSeq(Tail(s)))

ExtrapolatePassOverwriting(g, vld, gni, gnj) ==
    LET ValidNbrs(p) == SelectSeq(ExtrapNbrs(p), LAMBDA q : vld[q] # 0)
        count(p) == Len(ValidNbrs(p))
        sum(p) == RSumSeq([k \in 1 .. count(p) |-> g[ValidNbrs(p)[k]]])
        Fill(p) == ExtrapInterior(p, gni, gnj) /\ count(p) > 0
    IN  <<Eager([p \in DOMAIN g |->
                    IF Fill(p) THEN RRound(RDiv(sum(p), R(count(p)))) ELSE g[p]]),
          Eager([p \in DOMAIN vld |-> IF Fill(p) THEN 1 ELSE vld[p]])>>

ExtrapolatePass(g, vld, gni, gnj) ==
    LET old_valid == vld
        ValidNbrs(p) == SelectSeq(ExtrapNbrs(p), LAMBDA q : old_valid[q] # 0)
        count(p) == Len(ValidNbrs(p))
        sum(p) == RSumSeq([k \in 1 .. count(p) |-> g[ValidNbrs(p)[k]]])
        Fill(p) == ExtrapInterior(p, gni, gnj) /\ old_valid[p] = 0 /\ count(p) > 0
        temp_grid == [p \in DOMAIN g |->
                         IF Fill(p) THEN RRound(RDiv(sum(p), R(count(p)))) ELSE g[p]]
        new_valid == [p \in DOMAIN vld |-> IF Fill(p) THEN 1 ELSE vld[p]]
    IN  <<Eager(temp_grid), Eager(new_valid)>>

RECURSIVE ExtrapolateFrom(_, _, _, _, _)
ExtrapolateFrom(layer, g, vld, gni, gnj) ==
    IF layer >= ExtrapLayers THEN <<g, vld>>
    ELSE LET r == ExtrapolatePass(g, vld, gni, gnj)
         IN  ExtrapolateFrom(layer + 1, r[1], r[2], gni, gnj)

extrapolate(g, vld, gni, gnj) == ExtrapolateFrom(0, g, vld, gni, gnj)

(***************************************************************************)
(* Sparse matrices (SparseMatrixd): a function on the (row, column) pairs  *)
(* that add_to_element / set_element touched since zero(); any other       *)
(* element is 0.  Both calls change the one element (row, column) only.    *)
(***************************************************************************)
EmptyMatrix == [rc \in {} |-> RZero]
MGet(m, r, c) == IF <<r, c>> \in DOMAIN m THEN m[<<r, c>>] ELSE RZero
add_to_element(m, r, c, val) == (<<r, c>> :> RAdd(MGet(m, r, c), val)) @@ m
set_element(m, r, c, val) == (<<r, c>> :> val) @@ m

MatOp(kind, r, c, val) == [kind |-> kind, row |-> r, col |-> c, val |-> val]

\* The matrix after the calls of ops, in order, on m: the calls that touch
\* an element are folded over that element.
RECURSIVE ApplyToElement(_, _)
ApplyToElement(val, ops) ==
    IF ops = <<>> THEN val
    ELSE ApplyToElement(IF Head(ops).kind = "set" THEN Head(ops).val
                        ELSE RAdd(val, Head(ops).val),
                        Tail(ops))

ApplyOps(m, ops) ==
    LET touched == {<<ops[k].row, ops[k].col>> : k \in 1 .. Len(ops)}
    IN  Eager([rc \in touched \cup DOMAIN m |->
                  ApplyToElement(MGet(m, rc[1], rc[2]),
                                 SelectSeq(ops, LAMBDA o : o.row = rc[1] /\ o.col = rc[2]))])

RECURSIVE Flatten(_)
Flatten(ss) == IF ss = <<>> THEN <<>> ELSE Head(ss) \o Flatten(Tail(ss))

\* The index pairs a loop "for j in jlo..jhi, for i in ilo..ihi" visits, in order.
LoopSeq(ilo, ihi, jlo, jhi) ==
    IF ihi < ilo \/ jhi < jlo THEN <<>>
    ELSE LET w == ihi - ilo + 1
         IN  [k \in 1 .. w * (jhi - jlo + 1) |-> <<ilo + ((k - 1) % w), jlo + ((k - 1) \div w)>>]

(***************************************************************************)
(* compute_pressure_weights                                                *)
(***************************************************************************)
UWeightNoComplement(i, j) ==
    clamp(fraction_inside(nodal_solid_phi[<<i, j + 1>>], nodal_solid_phi[<<i, j>>]),
          RZero, ROne)
UWeight(i, j) ==
    clamp(RSub(ROne, fraction_inside(nodal_solid_phi[<<i, j + 1>>], nodal_solid_phi[<<i, j>>])),
          RZero, ROne)
VWeight(i, j) ==
    clamp(RSub(ROne, fraction_inside(nodal_solid_phi[<<i + 1, j>>], nodal_solid_phi[<<i, j>>])),
          RZero, ROne)

(***************************************************************************)
(* solve_pressure(dt): assembly.  ThetaMin is the floor of the free        *)
(* surface fraction (0.01f).                                               *)
(***************************************************************************)
ThetaMin == Q(1, 100)
ThetaClamp(theta) == IF RLt(theta, ThetaMin) THEN ThetaMin ELSE theta

\* The four face neighbours of cell (i, j) in the order right, left, top, bottom.
PressureFaces(i, j) ==
    LET index == i + NI * j
    IN  << [w |-> u_weights[<<i + 1, j>>], phi |-> liquid_phi[<<i + 1, j>>],
            col |-> index + 1, vel |-> u[<<i + 1, j>>], sgn |-> -1],
           [w |-> u_weights[<<i, j>>], phi |-> liquid_phi[<<i - 1, j>>],
            col |-> index - 1, vel |-> u[<<i, j>>], sgn |-> 1],
           [w |-> v_weights[<<i, j + 1>>], phi |-> liquid_phi[<<i, j + 1>>],
            col |-> index + NI, vel |-> v[<<i, j + 1>>], sgn |-> -1],
           [w |-> v_weights[<<i, j>>], phi |-> liquid_phi[<<i, j - 1>>],
            col |-> index - NI, vel |-> v[<<i, j>>], sgn |-> 1] >>

PressureFaceOps(i, j, f, dt_) ==
    LET index == i + NI * j
        centre_phi == liquid_phi[<<i, j>>]
        term == RDiv(RMul(f.w, dt_), sqr(dx))
    IN  IF RIsNeg(f.phi)
        THEN << MatOp("add", index, index, term), MatOp("add", index, f.col, RNeg(term)) >>
        ELSE << MatOp("add", index, index,
                      RDiv(term, ThetaClamp(fraction_inside(centre_phi, f.phi)))) >>

PressureCellOps(i, j, dt_) ==
    IF RIsNeg(liquid_phi[<<i, j>>])
    THEN Flatten([k \in 1 .. 4 |-> PressureFaceOps(i, j, PressureFaces(i, j)[k], dt_)])
    ELSE <<>>

PressureCellRhs(i, j) ==
    IF RIsNeg(liquid_phi[<<i, j>>])
    THEN RSumSeq([k \in 1 .. 4 |->
            LET f == PressureFaces(i, j)[k]
            IN  RMul(R(f.sgn), RDiv(RMul(f.w, f.vel), dx))])
    ELSE RZero

\* for(j = 1; j < nj-1; ++j) for(i = 1; i < ni-1; ++i)
PressureRows == LoopSeq(1, NI - 2, 1, NJ - 2)

PressureOps(dt_) ==
    Flatten([k \in 1 .. Len(PressureRows) |->
                PressureCellOps(PressureRows[k][1], PressureRows[k][2], dt_)])

PressureMatrix(dt_) == ApplyOps(EmptyMatrix, PressureOps(dt_))

PressureRhs ==
    [k \in 0 .. NI * NJ - 1 |->
        IF \E n \in 1 .. Len(PressureRows) : PressureRows[n][1] + NI * PressureRows[n][2] = k
        THEN PressureCellRhs(k % NI, k \div NI)
        ELSE rhs[k]]

(***************************************************************************)
(* The linear solver (pcgsolver, outside the core).  solve(matrix, rhs,    *)
(* result, residual, iterations) returns a success flag and overwrites     *)
(* result.  Modelled by its contract.  The result is zero at every unknown *)
(* whose row is empty with a zero right-hand side (the solver starts from  *)
(* the zero vector and never moves such an unknown).  At the other         *)
(* unknowns it is either the solution of the system (a converged run) or   *)
(* the iterate of a run that stalled, and success means that the result    *)
(* solves the system.  The converged run is modelled where the solution    *)
(* stays within the model's numbers: a zero right-hand side, whose         *)
(* solution is the starting vector, or at most DirectMax unknowns.         *)
(***************************************************************************)
DirectMax == 2

\* Row k of m times x: the sum over the stored elements of the row.
RowDot(m, x, k, n) ==
    LET cols == SelectSeq([c \in 1 .. n |-> c - 1], LAMBDA c : <<k, c>> \in DOMAIN m)
    IN  RSumSeq([i \in 1 .. Len(cols) |-> RMul(m[<<k, cols[i]>>], x[cols[i]])])

SolverActiveRows(m, b, n) ==
    {k \in 0 .. n - 1 :
        \/ ~RIsZero(b[k])
        \/ \E rc \in DOMAIN m : rc[1] = k /\ ~RIsZero(m[rc])}

\* Elimination on the unknowns ks (a sequence), the others being zero.
RECURSIVE SolveDirect(_, _, _)
SolveDirect(A, b, ks) ==
    IF ks = <<>> THEN [k \in {} |-> RZero]
    ELSE LET k == Head(ks)
             rest == Tail(ks)
             restSet == {rest[n] : n \in 1 .. Len(rest)}
             piv == A[<<k, k>>]
             A2 == Eager([rc \in restSet \X restSet |->
                            RSub(A[rc], RDiv(RMul(A[<<rc[1], k>>], A[<<k, rc[2]>>]), piv))])
             b2 == Eager([r \in restSet |-> RSub(b[r], RDiv(RMul(A[<<r, k>>], b[k]), piv))])
             x == SolveDirect(A2, b2, rest)
             xk == RDiv(RSub(b[k], RSumSeq([n \in 1 .. Len(rest) |->
                                              RMul(A[<<k, rest[n]>>], x[rest[n]])])),
                        piv)
         IN  Eager((k :> xk) @@ x)

StalledValue == ROne

SolverResults(m, b, n) ==
    LET active == SolverActiveRows(m, b, n)
        ks == SelectSeq([k \in 1 .. n |-> k - 1], LAMBDA k : k \in active)
        A == Eager([rc \in active \X active |-> MGet(m, rc[1], rc[2])])
        solution == SolveDirect(A, b, ks)
        stalled == [k \in 0 .. n - 1 |-> IF k \in active THEN StalledValue ELSE RZero]
        converged == [k \in 0 .. n - 1 |-> IF k \in active THEN solution[k] ELSE RZero]
    IN  {stalled}
        \cup (IF \A k \in active : RIsZero(b[k]) THEN {[k \in 0 .. n - 1 |-> RZero]}
              ELSE IF Len(ks) <= DirectMax /\ \A k \in active : solution[k][2] # 0
              THEN {converged}
              ELSE {})

SolverSuccess(m, b, x, n) == \A k \in 0 .. n - 1 : RowDot(m, x, k, n) = b[k]

(***************************************************************************)
(* solve_pressure(dt): the velocity update.                                *)
(***************************************************************************)
UpdateTheta(phi_a, phi_b) ==
    LET theta == IF ~RIsNeg(phi_b) \/ ~RIsNeg(phi_a)
                 THEN fraction_inside(phi_a, phi_b) ELSE ROne
    IN  ThetaClamp(theta)

\* for(j = 0; j < u.nj; ++j) for(i = 1; i < u.ni-1; ++i)
UUpdated(p) == p[1] >= 1 /\ p[1] <= NI - 1
\* for(j = 1; j < v.nj-1; ++j) for(i = 0; i < v.ni; ++i)
VUpdated(p) == p[2] >= 1 /\ p[2] <= NJ - 1

UFaceOpenWeightOnly(i, j) == RIsPos(u_weights[<<i, j>>])

UFaceOpen(i, j) ==
    /\ RIsPos(u_weights[<<i, j>>])
    /\ (RIsNeg(liquid_phi[<<i, j>>]) \/ RIsNeg(liquid_phi[<<i - 1, j>>]))
VFaceOpen(i, j) ==
    /\ RIsPos(v_weights[<<i, j>>])
    /\ (RIsNeg(liquid_phi[<<i, j>>]) \/ RIsNeg(liquid_phi[<<i, j - 1>>]))

PressureUpdatedUPlus(prs, dt_, p) ==
    LET i == p[1]
        j == p[2]
        index == i + j * NI
    IN  RAdd(u[p],
             RDiv(RDiv(RMul(dt_, RSub(prs[index], prs[index - 1])), dx),
                  UpdateTheta(liquid_phi[<<i - 1, j>>], liquid_phi[<<i, j>>])))

\* u(i,j) -= dt * (pressure[index] - pressure[index-1]) / dx / theta
PressureUpdatedU(prs, dt_, p) ==
    LET i == p[1]
        j == p[2]
        index == i + j * NI
    IN  RSub(u[p],
             RDiv(RDiv(RMul(dt_, RSub(prs[index], prs[index - 1])), dx),
                  UpdateTheta(liquid_phi[<<i - 1, j>>], liquid_phi[<<i, j>>])))

PressureUpdateU(prs, dt_) ==
    [p \in DOMAIN u |->
        IF ~UUpdated(p) THEN u[p]
        ELSE IF UFaceOpen(p[1], p[2]) THEN RRound(PressureUpdatedU(prs, dt_, p))
        ELSE RZero]

\* v(i,j) -= dt * (pressure[index] - pressure[index-ni]) / dx / theta
PressureUpdatedV(prs, dt_, p) ==
    LET i == p[1]
        j == p[2]
        index == i + j * NI
    IN  RSub(v[p],
             RDiv(RDiv(RMul(dt_, RSub(prs[index], prs[index - NI])), dx),
                  UpdateTheta(liquid_phi[<<i, j - 1>>], liquid_phi[<<i, j>>])))

PressureUpdateV(prs, dt_) ==
    [p \in DOMAIN v |->
        IF ~VUpdated(p) THEN v[p]
        ELSE IF VFaceOpen(p[1], p[2]) THEN RRound(PressureUpdatedV(prs, dt_, p))
        ELSE RZero]

PressureValidU ==
    [p \in DOMAIN u |-> IF UUpdated(p) /\ UFaceOpen(p[1], p[2]) THEN 1 ELSE 0]
PressureValidV ==
    [p \in DOMAIN v |-> IF VUpdated(p) /\ VFaceOpen(p[1], p[2]) THEN 1 ELSE 0]

(***************************************************************************)
(* Array2 utilities (array2_utils.h, util.h): clamped cell lookup and      *)
(* bilinear interpolation of an Array2 of shape (ni_, nj_) at a point      *)
(* given in index space.                                                   *)
(***************************************************************************)
RFloor(a) == a[1] \div a[2]

\* get_barycentric(x, i, f, i_low, i_high): <<i, f>>.  The conversion of a NaN
\* or an infinity to int yields the most negative int on the x86 builds of
\* the program, which the lower clamp then maps to i_low.
get_barycentric(x, i_low, i_high) ==
    LET s == RFloor(x)
    IN  IF x[2] = 0 THEN <<i_low, RZero>>
        ELSE IF s < i_low THEN <<i_low, RZero>>
        ELSE IF s > i_high - 2 THEN <<i_high - 2, ROne>>
        ELSE <<s, RSub(x, R(s))>>

lerp(a, b, f) == RAdd(RMul(RSub(ROne, f), a), RMul(f, b))
bilerp(v00, v10, v01, v11, fx, fy) == lerp(lerp(v00, v10, fx), lerp(v01, v11, fx), fy)

interpolate_value(px, py, a, ni_, nj_) ==
    LET bi == get_barycentric(px, 0, ni_)
        bj == get_barycentric(py, 0, nj_)
        i == bi[1]
        j == bj[1]
    IN  bilerp(a[<<i, j>>], a[<<i + 1, j>>], a[<<i, j + 1>>], a[<<i + 1, j + 1>>], bi[2], bj[2])

\* interpolate_gradient(gradient, point, grid): <<gradient[0], gradient[1]>>
interpolate_gradient(px, py, a, ni_, nj_) ==
    LET bi == get_barycentric(px, 0, ni_)
        bj == get_barycentric(py, 0, nj_)
        i == bi[1]
        j == bj[1]
        v00 == a[<<i, j>>]
        v01 == a[<<i, j + 1>>]
        v10 == a[<<i + 1, j>>]
        v11 == a[<<i + 1, j + 1>>]
        ddy0 == RSub(v01, v00)
        ddy1 == RSub(v11, v10)
        ddx0 == RSub(v10, v00)
        ddx1 == RSub(v11, v01)
    IN  <<lerp(ddx0, ddx1, bj[2]), lerp(ddy0, ddy1, bi[2])>>

(***************************************************************************)
(* compute_volume_fractions(levelset, fractions, fraction_origin, 2) and   *)
(* compute_viscosity_weights.                                              *)
(***************************************************************************)
Subdivision == 2

VolumeFraction(i, j, ox, oy) ==
    LET sub_dx == Q(1, Subdivision)
        Pos(o, k, sub) == RAdd(RAdd(o, R(k)), RMul(RAdd(R(sub), Q(1, 2)), sub_dx))
        incount == Cardinality({sp \in (0 .. Subdivision - 1) \X (0 .. Subdivision - 1) :
                        RIsNeg(interpolate_value(Pos(ox, i, sp[1]), Pos(oy, j, sp[2]),
                                                 liquid_phi, NI, NJ))})
    IN  Q(incount, Subdivision * Subdivision)

CVol == [p \in Idx(NI, NJ) |-> VolumeFraction(p[1], p[2], Q(-1, 2), Q(-1, 2))]
NVol == [p \in Idx(NI + 1, NJ + 1) |-> VolumeFraction(p[1], p[2], R(-1), R(-1))]
UVol == [p \in Idx(NI + 1, NJ) |-> VolumeFraction(p[1], p[2], R(-1), Q(-1, 2))]
VVol == [p \in Idx(NI, NJ + 1) |-> VolumeFraction(p[1], p[2], Q(-1, 2), R(-1))]

(***************************************************************************)
(* solve_viscosity(dt): face classification, unknown numbering, assembly   *)
(* and write-back.  The obstacle velocity is zero (static obstacles).      *)
(***************************************************************************)
SOLID == 1
FLUID == 0
u_obj == RZero
v_obj == RZero

u_ind(i, j) == i + j * (NI + 1)
v_ind(i, j) == i + j * NI + (NI + 1) * NJ

u_state(i, j) ==
    IF i - 1 < 0 \/ i >= NI
       \/ RLe(RDiv(RAdd(nodal_solid_phi[<<i, j + 1>>], nodal_solid_phi[<<i, j>>]), R(2)), RZero)
    THEN SOLID ELSE FLUID

v_state(i, j) ==
    IF j - 1 < 0 \/ j >= NJ
       \/ RLe(RDiv(RAdd(nodal_solid_phi[<<i + 1, j>>], nodal_solid_phi[<<i, j>>]), R(2)), RZero)
    THEN SOLID ELSE FLUID

Visc4(a, b, c, d) ==
    RMul(Q(1, 4), RAdd(RAdd(RAdd(viscosity[a], viscosity[b]), viscosity[c]), viscosity[d]))

\* One stencil term of a row: the diagonal weight it adds (diag; zero for a
\* cross term), the neighbour's state and unknown, the off-diagonal
\* coefficient, and the obstacle velocity moved to the right-hand side.
VTerm(diag, state, ind, coef, obj) ==
    [diag |-> diag, state |-> state, ind |-> ind, coef |-> coef, obj |-> obj]

UTerms(i, j, factor) ==
    LET visc_right == viscosity[<<i, j>>]
        visc_left == viscosity[<<i - 1, j>>]
        vol_right == c_vol[<<i, j>>]
        vol_left == c_vol[<<i - 1, j>>]
        visc_top == Visc4(<<i - 1, j + 1>>, <<i - 1, j>>, <<i, j + 1>>, <<i, j>>)
        visc_bottom == Visc4(<<i - 1, j>>, <<i - 1, j - 1>>, <<i, j>>, <<i, j - 1>>)
        vol_top == n_vol[<<i, j + 1>>]
        vol_bottom == n_vol[<<i, j>>]
        xr == RMul(RMul(RMul(R(2), factor), visc_right), vol_right)
        xl == RMul(RMul(RMul(R(2), factor), visc_left), vol_left)
        yt == RMul(RMul(factor, visc_top), vol_top)
        yb == RMul(RMul(factor, visc_bottom), vol_bottom)
    IN  << VTerm(xr, u_state(i + 1, j), u_ind(i + 1, j), RNeg(xr), u_obj),
           VTerm(xl, u_state(i - 1, j), u_ind(i - 1, j), RNeg(xl), u_obj),
           VTerm(yt, u_state(i, j + 1), u_ind(i, j + 1), RNeg(yt), u_obj),
           VTerm(yb, u_state(i, j - 1), u_ind(i, j - 1), RNeg(yb), u_obj),
           VTerm(RZero, v_state(i, j + 1), v_ind(i, j + 1), RNeg(yt), v_obj),
           VTerm(RZero, v_state(i - 1, j + 1), v_ind(i - 1, j + 1), yt, v_obj),
           VTerm(RZero, v_state(i, j), v_ind(i, j), yb, v_obj),
           VTerm(RZero, v_state(i - 1, j), v_ind(i - 1, j), RNeg(yb), v_obj) >>

VTerms(i, j, factor) ==
    LET visc_top == viscosity[<<i, j>>]
        visc_bottom == viscosity[<<i, j - 1>>]
        vol_top == c_vol[<<i, j>>]
        vol_bottom == c_vol[<<i, j - 1>>]
        visc_right == Visc4(<<i, j - 1>>, <<i + 1, j - 1>>, <<i, j>>, <<i + 1, j>>)
        visc_left == Visc4(<<i, j - 1>>, <<i - 1, j - 1>>, <<i, j>>, <<i - 1, j>>)
        vol_right == n_vol[<<i + 1, j>>]
        vol_left == n_vol[<<i, j>>]
        yt == RMul(RMul(RMul(R(2), factor), visc_top), vol_top)
        yb == RMul(RMul(RMul(R(2), factor), visc_bottom), vol_bottom)
        xr == RMul(RMul(factor, visc_right), vol_right)
        xl == RMul(RMul(factor, visc_left), vol_left)
    IN  << VTerm(yt, v_state(i, j + 1), v_ind(i, j + 1), RNeg(yt), v_obj),
           VTerm(yb, v_state(i, j - 1), v_ind(i, j - 1), RNeg(yb), v_obj),
           VTerm(xr, v_state(i + 1, j), v_ind(i + 1, j), RNeg(xr), v_obj),
           VTerm(xl, v_state(i - 1, j), v_ind(i - 1, j), RNeg(xl), v_obj),
           VTerm(RZero, u_state(i + 1, j), u_ind(i + 1, j), RNeg(xr), u_obj),
           VTerm(RZero, u_state(i + 1, j - 1), u_ind(i + 1, j - 1), xr, u_obj),
           VTerm(RZero, u_state(i, j), u_ind(i, j), xl, u_obj),
           VTerm(RZero, u_state(i, j - 1), u_ind(i, j - 1), RNeg(xl), u_obj) >>

\* The matrix calls one term makes in the row index.  The self-coupling
\* calls of the first four terms come before the neighbour test.
TermOps(index, tm, isStencil) ==
    (IF isStencil THEN << MatOp("add", index, index, tm.diag) >> ELSE <<>>)
    \o (IF tm.state = FLUID THEN << MatOp("add", index, tm.ind, tm.coef) >> ELSE <<>>)

RowOps(index, vol, terms) ==
    << MatOp("set", index, index, vol) >>
    \o Flatten([k \in 1 .. Len(terms) |-> TermOps(index, terms[k], k <= 4)])

RowRhs(vol, vel, terms) ==
    RSub(RMul(vol, vel),
         RSumSeq([k \in 1 .. Len(terms) |->
                    IF terms[k].state = SOLID THEN RMul(terms[k].coef, terms[k].obj)
                    ELSE RZero]))

\* for(j = 1; j < nj-1; ++j) for(i = 1; i < ni-1; ++i) if(u_state(i,j) == FLUID)
URows == SelectSeq(LoopSeq(1, NI - 2, 1, NJ - 2), LAMBDA p : u_state(p[1], p[2]) = FLUID)
\* for(j = 1; j < nj; ++j) for(i = 1; i < ni-1; ++i) if(v_state(i,j) == FLUID)
VRows == SelectSeq(LoopSeq(1, NI - 2, 1, NJ - 1), LAMBDA p : v_state(p[1], p[2]) = FLUID)

ViscosityOps(dt_) ==
    LET factor == RDiv(dt_, sqr(dx))
    IN  Flatten([k \in 1 .. Len(URows) |->
                    LET p == URows[k]
                    IN  RowOps(u_ind(p[1], p[2]), u_vol[p], UTerms(p[1], p[2], factor))])
        \o Flatten([k \in 1 .. Len(VRows) |->
                    LET p == VRows[k]
                    IN  RowOps(v_ind(p[1], p[2]), v_vol[p], VTerms(p[1], p[2], factor))])

ViscosityMatrix(dt_) == ApplyOps(EmptyMatrix, ViscosityOps(dt_))

Elts == (NI + 1) * NJ + NI * (NJ + 1)

ViscosityRhs(dt_) ==
    LET factor == RDiv(dt_, sqr(dx))
    IN  [k \in 0 .. Elts - 1 |->
            IF \E n \in 1 .. Len(URows) : u_ind(URows[n][1], URows[n][2]) = k
            THEN LET p == CHOOSE q \in Idx(NI + 1, NJ) :
                            u_ind(q[1], q[2]) = k /\ \E n \in 1 .. Len(URows) : URows[n] = q
                 IN  RowRhs(u_vol[p], u[p], UTerms(p[1], p[2], factor))
            ELSE IF \E n \in 1 .. Len(VRows) : v_ind(VRows[n][1], VRows[n][2]) = k
            THEN LET p == CHOOSE q \in Idx(NI, NJ + 1) :
                            v_ind(q[1], q[2]) = k /\ \E n \in 1 .. Len(VRows) : VRows[n] = q
                 IN  RowRhs(v_vol[p], v[p], VTerms(p[1], p[2], factor))
            ELSE vrhs[k]]

ViscosityWriteU(x) ==
    [p \in DOMAIN u |->
        IF u_state(p[1], p[2]) = FLUID THEN x[u_ind(p[1], p[2])]
        ELSE IF u_state(p[1], p[2]) = SOLID THEN u_obj
        ELSE u[p]]
ViscosityWriteVFluidOnly(x) ==
    [p \in DOMAIN v |->
        IF v_state(p[1], p[2]) = FLUID THEN x[v_ind(p[1], p[2])] ELSE v[p]]
ViscosityWriteV(x) ==
    [p \in DOMAIN v |->
        IF v_state(p[1], p[2]) = FLUID THEN x[v_ind(p[1], p[2])]
        ELSE IF v_state(p[1], p[2]) = SOLID THEN v_obj
        ELSE v[p]]

(***************************************************************************)
(* Vec2f helpers (vec.h): a vector is a pair of values.                    *)
(***************************************************************************)
VAdd(a, b) == <<RAdd(a[1], b[1]), RAdd(a[2], b[2])>>
VSub(a, b) == <<RSub(a[1], b[1]), RSub(a[2], b[2])>>
VScale(k, a) == <<RMul(k, a[1]), RMul(k, a[2])>>
dot(a, b) == RAdd(RMul(a[1], b[1]), RMul(a[2], b[2]))
mag(a) == RSqrt(dot(a, a))
dist(a, b) == mag(VSub(a, b))
normalize(a) == <<RDiv(a[1], mag(a)), RDiv(a[2], mag(a))>>

(***************************************************************************)
(* get_velocity(position): the two components interpolated at a point.     *)
(***************************************************************************)
get_velocity_of(uu, vv, position) ==
    LET at == VRound(position)
    IN  VRound(<< interpolate_value(RDiv(at[1], dx), RSub(RDiv(at[2], dx), Q(1, 2)),
                                    uu, NI + 1, NJ),
                  interpolate_value(RSub(RDiv(at[1], dx), Q(1, 2)), RDiv(at[2], dx),
                                    vv, NI, NJ + 1) >>)
get_velocity(position) == get_velocity_of(u, v, position)

SolidGradient(position) ==
    interpolate_gradient(RDiv(position[1], dx), RDiv(position[2], dx),
                         nodal_solid_phi, NI + 1, NJ + 1)

(***************************************************************************)
(* constrain_velocity: at every face of weight exactly zero the stored     *)
(* component becomes that component of vel - dot(vel, normal) * normal,    *)
(* with vel sampled from the field as it was on entry.                     *)
(***************************************************************************)
UFacePos(i, j) == <<RMul(R(i), dx), RMul(RAdd(R(j), Q(1, 2)), dx)>>
VFacePos(i, j) == <<RMul(RAdd(R(i), Q(1, 2)), dx), RMul(R(j), dx)>>

ConstrainedVel(pos) ==
    LET vel == get_velocity(pos)
        normal == normalize(SolidGradient(pos))
        perp_component == dot(vel, normal)
    IN  VSub(vel, VScale(perp_component, normal))

ConstrainUSkipped == u
ConstrainVSkipped == v

ConstrainU ==
    [p \in DOMAIN u |->
        IF RIsZero(u_weights[p]) THEN RRound(ConstrainedVel(UFacePos(p[1], p[2]))[1])
        ELSE u[p]]
ConstrainV ==
    [p \in DOMAIN v |->
        IF RIsZero(v_weights[p]) THEN RRound(ConstrainedVel(VFacePos(p[1], p[2]))[2])
        ELSE v[p]]

(***************************************************************************)
(* cfl(): dx over the largest stored speed; +infinity for a still field.   *)
(***************************************************************************)
\* max(maxvel, fabs(a[k])) over the elements of a, from maxvel on: std::max
\* keeps its first argument when the second is NaN.
MaxAbs(maxvel, a) ==
    LET vals == ({RAbs(a[p]) : p \in DOMAIN a} \ {NaN}) \cup {maxvel}
    IN  CHOOSE m \in vals : \A x \in vals : RLe(x, m)

cfl ==
    LET maxvel == MaxAbs(MaxAbs(RZero, u), v)
    IN  RDiv(dx, maxvel)

(***************************************************************************)
(* add_force(dt): gravity, 0.1 per sub-step on every v face.               *)
(***************************************************************************)
Gravity == Q(1, 10)
AddForceV == [p \in DOMAIN v |-> RRound(RSub(v[p], Gravity))]

(***************************************************************************)
(* trace_rk2(position, dt) and advect(dt): semi-Lagrangian advection.      *)
(***************************************************************************)
trace_rk2(position, dt_) ==
    LET velocity0 == get_velocity(position)
        velocity == get_velocity(VAdd(position, VScale(RMul(Q(1, 2), dt_), velocity0)))
    IN  VRound(VAdd(position, VScale(dt_, velocity)))

AdvectU(dt_) ==
    [p \in DOMAIN u |-> RRound(get_velocity(trace_rk2(UFacePos(p[1], p[2]), RNeg(dt_)))[1])]
AdvectV(dt_) ==
    [p \in DOMAIN v |-> RRound(get_velocity(trace_rk2(VFacePos(p[1], p[2]), RNeg(dt_)))[2])]

(***************************************************************************)
(* advect_particles(dt): every particle is moved in place (RK2), then      *)
(* pushed out of the solid along the normal if it ended inside.            *)
(***************************************************************************)
SolidPhiAt(position) ==
    interpolate_value(RDiv(position[1], dx), RDiv(position[2], dx),
                      nodal_solid_phi, NI + 1, NJ + 1)

MoveParticle(before, dt_) ==
    LET start_velocity == get_velocity(before)
        midpoint == VRound(VAdd(before, VScale(RMul(Q(1, 2), dt_), start_velocity)))
        mid_velocity == get_velocity(midpoint)
        after == VRound(VAdd(before, VScale(dt_, mid_velocity)))
        phi_value == SolidPhiAt(after)
        moved == IF RIsNeg(phi_value)
                 THEN VSub(after, VScale(phi_value, normalize(SolidGradient(after))))
                 ELSE after
    IN  VRound(moved)

AdvectParticlesDropping(dt_) ==
    SelectSeq([k \in 1 .. Len(particles) |-> MoveParticle(particles[k], dt_)],
              LAMBDA q : ~RIsNeg(SolidPhiAt(q)))

AdvectParticles(dt_) ==
    [k \in 1 .. Len(particles) |-> MoveParticle(particles[k], dt_)]

(***************************************************************************)
(* compute_phi(): the liquid distance from the particles, then pushed      *)
(* into nearby solid cells.                                                *)
(***************************************************************************)
particle_radius == RDiv(dx, RSqrt(R(2)))
CellCentre(i, j) == <<RMul(RAdd(R(i), Q(1, 2)), dx), RMul(RAdd(R(j), Q(1, 2)), dx)>>

PhiOfParticle(phi, point) ==
    LET i == get_barycentric(RSub(RDiv(point[1], dx), Q(1, 2)), 0, NI)[1]
        j == get_barycentric(RSub(RDiv(point[2], dx), Q(1, 2)), 0, NJ)[1]
    IN  [c \in DOMAIN phi |->
            IF c[1] >= i - 2 /\ c[1] <= i + 2 /\ c[2] >= j - 2 /\ c[2] <= j + 2
            THEN RMin(phi[c], RRound(RSub(dist(CellCentre(c[1], c[2]), point),
                                          RMul(Q(51, 50), particle_radius))))
            ELSE phi[c]]

RECURSIVE PhiOfParticles(_, _)
PhiOfParticles(phi, k) ==
    IF k > Len(particles) THEN phi
    ELSE PhiOfParticles(PhiOfParticle(phi, particles[k]), k + 1)

ComputePhi ==
    LET est == PhiOfParticles([c \in Idx(NI, NJ) |-> RMul(R(3), dx)], 1)
    IN  [c \in Idx(NI, NJ) |->
            LET i == c[1]
                j == c[2]
                solid_phi_val ==
                    RMul(Q(1, 4),
                         RAdd(RAdd(RAdd(nodal_solid_phi[<<i, j>>], nodal_solid_phi[<<i + 1, j>>]),
                                   nodal_solid_phi[<<i, j + 1>>]),
                              nodal_solid_phi[<<i + 1, j + 1>>]))
            IN  IF RLt(est[c], RMul(Q(1, 2), dx)) /\ RIsNeg(solid_phi_val)
                THEN RNeg(RMul(Q(1, 2), dx))
                ELSE est[c]]

(***************************************************************************)
(* State.                                                                  *)
(***************************************************************************)
gridVars == <<dx, nodal_solid_phi, viscosity>>
velVars == <<u, v>>
phiVars == <<liquid_phi>>
weightVars == <<u_weights, v_weights>>
volVars == <<u_vol, v_vol, c_vol, n_vol>>
validVars == <<u_valid, v_valid>>
pressureVars == <<matrix, rhs, pressure, success>>
viscosityVars == <<vmatrix, vrhs, velocities, vsuccess>>
loopVars == <<t, dt, substep, calls>>
extrapVars == <<grid, valid, layers, valid0>>
fracVars == <<fi_left, fi_right, fi_result>>
indexVars == <<ni, nj, iter, accessed>>
vars == <<pc, gridVars, velVars, phiVars, weightVars, volVars, validVars, pressureVars,
          viscosityVars, loopVars, particles, log, stages, extrapVars, fracVars, indexVars>>

ZeroArray(ni_, nj_) == [p \in Idx(ni_, nj_) |-> RZero]
ZeroVector(n) == [k \in 0 .. n - 1 |-> RZero]
Unused == "unused"

(***************************************************************************)
(* advance(dt): the order of the stages of one sub-step.  apply_viscosity  *)
(* is compute_viscosity_weights then solve_viscosity; apply_projection is  *)
(* compute_pressure_weights then solve_pressure.                           *)
(***************************************************************************)
StageOrder ==
    << "advect_particles", "compute_phi", "advect", "add_force",
       "compute_viscosity_weights", "solve_viscosity",
       "compute_pressure_weights", "solve_pressure",
       "extrapolate_u", "extrapolate_v", "constrain_velocity" >>

StageIndex(s) == CHOOSE k \in 1 .. Len(StageOrder) : StageOrder[k] = s

NextStageProjectionFirst(s) ==
    CASE s = "add_force" -> "compute_pressure_weights"
      [] s = "solve_pressure" -> "compute_viscosity_weights"
      [] s = "solve_viscosity" -> "extrapolate_u"
      [] s = "constrain_velocity" -> "substep_end"
      [] OTHER -> StageOrder[StageIndex(s) + 1]

NextStage(s) ==
    IF StageIndex(s) = Len(StageOrder) THEN "substep_end"
    ELSE StageOrder[StageIndex(s) + 1]

\* What every stage does besides its own work.
Stage(s) ==
    /\ pc = s
    /\ pc' = NextStage(s)
    /\ stages' = Append(stages, s)

AdvectParticlesStep ==
    /\ Stage("advect_particles")
    /\ particles' = AdvectParticles(substep)
    /\ UNCHANGED <<gridVars, velVars, phiVars, weightVars, volVars, validVars, pressureVars,
                   viscosityVars, loopVars, log, extrapVars, fracVars, indexVars>>

ComputePhiStep ==
    /\ Stage("compute_phi")
    /\ liquid_phi' = ComputePhi
    /\ UNCHANGED <<gridVars, velVars, weightVars, volVars, validVars, pressureVars,
                   viscosityVars, loopVars, particles, log, extrapVars, fracVars, indexVars>>

AdvectStep ==
    /\ Stage("advect")
    /\ u' = AdvectU(substep)
    /\ v' = AdvectV(substep)
    /\ UNCHANGED <<gridVars, phiVars, weightVars, volVars, validVars, pressureVars,
                   viscosityVars, loopVars, particles, log, extrapVars, fracVars, indexVars>>

AddForceStep ==
    /\ Stage("add_force")
    /\ v' = AddForceV
    /\ UNCHANGED <<gridVars, u, phiVars, weightVars, volVars, validVars, pressureVars,
                   viscosityVars, loopVars, particles, log, extrapVars, fracVars, indexVars>>

ComputeViscosityWeightsStep ==
    /\ Stage("compute_viscosity_weights")
    /\ c_vol' = CVol
    /\ n_vol' = NVol
    /\ u_vol' = UVol
    /\ v_vol' = VVol
    /\ UNCHANGED <<gridVars, velVars, phiVars, weightVars, validVars, pressureVars,
                   viscosityVars, loopVars, particles, log, extrapVars, fracVars, indexVars>>

\* The flag solver.solve returns is dropped: nothing is printed on failure.
SolveViscosityStep ==
    /\ Stage("solve_viscosity")
    /\ vmatrix' = ViscosityMatrix(substep)
    /\ vrhs' = ViscosityRhs(substep)
    /\ \E x \in SolverResults(vmatrix', vrhs', Elts) :
          /\ velocities' = x
          /\ vsuccess' = SolverSuccess(vmatrix', vrhs', x, Elts)
          /\ u' = ViscosityWriteU(x)
          /\ v' = ViscosityWriteV(x)
    /\ UNCHANGED <<gridVars, phiVars, weightVars, volVars, validVars, pressureVars,
                   loopVars, particles, log, extrapVars, fracVars, indexVars>>

ComputePressureWeightsStep ==
    /\ Stage("compute_pressure_weights")
    /\ u_weights' = [p \in Idx(NI + 1, NJ) |-> UWeight(p[1], p[2])]
    /\ v_weights' = [p \in Idx(NI, NJ + 1) |-> VWeight(p[1], p[2])]
    /\ UNCHANGED <<gridVars, velVars, phiVars, volVars, validVars, pressureVars,
                   viscosityVars, loopVars, particles, log, extrapVars, fracVars, indexVars>>

PressureWarning == "WARNING: Pressure solve failed!"

SolvePressureStep ==
    /\ Stage("solve_pressure")
    /\ matrix' = PressureMatrix(substep)
    /\ rhs' = PressureRhs
    /\ \E x \in SolverResults(matrix', rhs', NI * NJ) :
          /\ pressure' = x
          /\ success' = SolverSuccess(matrix', rhs', x, NI * NJ)
          /\ log' = IF success' THEN log ELSE Append(log, PressureWarning)
          /\ u' = PressureUpdateU(x, substep)
          /\ v' = PressureUpdateV(x, substep)
    /\ u_valid' = PressureValidU
    /\ v_valid' = PressureValidV
    /\ UNCHANGED <<gridVars, phiVars, weightVars, volVars, viscosityVars, loopVars,
                   particles, extrapVars, fracVars, indexVars>>

ExtrapolateUStep ==
    /\ Stage("extrapolate_u")
    /\ LET r == extrapolate(u, u_valid, NI + 1, NJ)
       IN  u' = r[1] /\ u_valid' = r[2]
    /\ UNCHANGED <<gridVars, v, v_valid, phiVars, weightVars, volVars, pressureVars,
                   viscosityVars, loopVars, particles, log, extrapVars, fracVars, indexVars>>

ExtrapolateVStep ==
    /\ Stage("extrapolate_v")
    /\ LET r == extrapolate(v, v_valid, NI, NJ + 1)
       IN  v' = r[1] /\ v_valid' = r[2]
    /\ UNCHANGED <<gridVars, u, u_valid, phiVars, weightVars, volVars, pressureVars,
                   viscosityVars, loopVars, particles, log, extrapVars, fracVars, indexVars>>

ConstrainVelocityStep ==
    /\ Stage("constrain_velocity")
    /\ u' = ConstrainU
    /\ v' = ConstrainV
    /\ UNCHANGED <<gridVars, phiVars, weightVars, volVars, validVars, pressureVars,
                   viscosityVars, loopVars, particles, log, extrapVars, fracVars, indexVars>>

SubstepStages ==
    \/ AdvectParticlesStep
    \/ ComputePhiStep
    \/ AdvectStep
    \/ AddForceStep
    \/ ComputeViscosityWeightsStep
    \/ SolveViscosityStep
    \/ ComputePressureWeightsStep
    \/ SolvePressureStep
    \/ ExtrapolateUStep
    \/ ExtrapolateVStep
    \/ ConstrainVelocityStep

(***************************************************************************)
(* advance(dt): the sub-stepping loop, and the calls a program makes.      *)
(***************************************************************************)
MaxParticles == 2
MaxCalls == 2

UnclippedSubstep == cfl

ClippedSubstep ==
    LET step == cfl
    IN  IF RLt(dt, RAdd(t, step)) THEN RSub(dt, t) ELSE step

AddParticle(position) ==
    /\ pc = "idle"
    /\ Len(particles) < MaxParticles
    /\ particles' = Append(particles, position)
    /\ UNCHANGED <<pc, gridVars, velVars, phiVars, weightVars, volVars, validVars,
                   pressureVars, viscosityVars, loopVars, log, stages, extrapVars, fracVars, indexVars>>

AdvanceCall(d) ==
    /\ pc = "idle"
    /\ calls < MaxCalls
    /\ calls' = calls + 1
    /\ dt' = d
    /\ t' = RZero
    /\ pc' = "loop"
    /\ stages' = <<>>
    /\ UNCHANGED <<gridVars, velVars, phiVars, weightVars, volVars, validVars, pressureVars,
                   viscosityVars, substep, particles, log, extrapVars, fracVars, indexVars>>

\* while(t < dt) { substep = cfl(); if(t + substep > dt) substep = dt - t; ...
LoopEnter ==
    /\ pc = "loop"
    /\ RLt(t, dt)
    /\ substep' = ClippedSubstep
    /\ pc' = StageOrder[1]
    /\ stages' = <<>>
    /\ UNCHANGED <<gridVars, velVars, phiVars, weightVars, volVars, validVars, pressureVars,
                   viscosityVars, t, dt, calls, particles, log, extrapVars, fracVars, indexVars>>

\* ... t += substep; }
SubstepEnd ==
    /\ pc = "substep_end"
    /\ t' = RAdd(t, substep)
    /\ pc' = "loop"
    /\ UNCHANGED <<gridVars, velVars, phiVars, weightVars, volVars, validVars, pressureVars,
                   viscosityVars, dt, substep, calls, particles, log, stages, extrapVars,
                   fracVars, indexVars>>

AdvanceReturn ==
    /\ pc = "loop"
    /\ ~RLt(t, dt)
    /\ pc' = "idle"
    /\ UNCHANGED <<gridVars, velVars, phiVars, weightVars, volVars, validVars, pressureVars,
                   viscosityVars, loopVars, particles, log, stages, extrapVars, fracVars, indexVars>>

(***************************************************************************)
(* Sample inputs.  Distances are in units of dx.                           *)
(***************************************************************************)
Widths == {R(NI)}

SolidOpen == [p \in Idx(NI + 1, NJ + 1) |-> R(1)]
SolidBox ==
    [p \in Idx(NI + 1, NJ + 1) |->
        LET m1 == IF p[1] < NI - p[1] THEN p[1] ELSE NI - p[1]
            m2 == IF p[2] < NJ - p[2] THEN p[2] ELSE NJ - p[2]
        IN  RSub(R(IF m1 < m2 THEN m1 ELSE m2), Q(1, 2))]
SolidFloor == [p \in Idx(NI + 1, NJ + 1) |-> RSub(R(p[2]), Q(1, 2))]
SolidThickFloor == [p \in Idx(NI + 1, NJ + 1) |-> RSub(R(p[2]), Q(3, 2))]
SolidWall == [p \in Idx(NI + 1, NJ + 1) |-> RSub(R(p[1]), Q(3, 2))]
SolidSlope == [p \in Idx(NI + 1, NJ + 1) |-> RSub(Q(3 * p[1] + 4 * p[2], 5), R(2))]
SolidAllSloped == [p \in Idx(NI + 1, NJ + 1) |-> R(-1 - p[1])]
SolidAll == [p \in Idx(NI + 1, NJ + 1) |-> R(-1)]
SolidUnset == [p \in Idx(NI + 1, NJ + 1) |-> RZero]

ScaleArray(a, k) == [p \in DOMAIN a |-> RMul(a[p], k)]

DtSamples == {Q(1, 2), R(2)}
StepParticles(d) ==
    LET P(a, b) == <<RMul(Q(a, 2), d), RMul(Q(b, 2), d)>>
    IN  { <<>>, <<P(3, 3)>>, <<P(3, 3), P(5, 3)>>, <<P(2, 2)>>, <<P(5, 3), P(7, 1)>> }

InitCommon ==
    /\ u_valid = [p \in Idx(NI + 1, NJ) |-> 0]
    /\ v_valid = [p \in Idx(NI, NJ + 1) |-> 0]
    /\ liquid_phi = ZeroArray(NI, NJ)
    /\ u_weights = ZeroArray(NI + 1, NJ)
    /\ v_weights = ZeroArray(NI, NJ + 1)
    /\ u_vol = ZeroArray(NI + 1, NJ)
    /\ v_vol = ZeroArray(NI, NJ + 1)
    /\ c_vol = ZeroArray(NI, NJ)
    /\ n_vol = ZeroArray(NI + 1, NJ + 1)
    /\ viscosity = [p \in Idx(NI, NJ) |-> ROne]
    /\ matrix = EmptyMatrix
    /\ rhs = ZeroVector(NI * NJ)
    /\ pressure = ZeroVector(NI * NJ)
    /\ success = TRUE
    /\ vmatrix = EmptyMatrix
    /\ vrhs = ZeroVector(Elts)
    /\ velocities = ZeroVector(Elts)
    /\ vsuccess = TRUE
    /\ log = <<>>
    /\ stages = <<>>

NoExtrapFrame == grid = Unused /\ valid = Unused /\ layers = 0 /\ valid0 = Unused
NoFracFrame == fi_left = Unused /\ fi_right = Unused /\ fi_result = Unused
NoIndexFrame == ni = 0 /\ nj = 0 /\ iter = 0 /\ accessed = {}

(***************************************************************************)
(* SpecStep: one sub-step of advance from the state a program can be in    *)
(* at the top of the loop body, with substep already chosen.               *)
(***************************************************************************)
StepSolids ==
    {SolidOpen, SolidBox, SolidFloor, SolidThickFloor, SolidWall, SolidSlope, SolidAllSloped,
     SolidAll}
StepVelocityU == {ZeroArray(NI + 1, NJ), [p \in Idx(NI + 1, NJ) |-> R(p[1] % 2)]}
StepVelocityV == {ZeroArray(NI, NJ + 1), [p \in Idx(NI, NJ + 1) |-> R(1 - p[2])]}

InitStep ==
    /\ InitCommon
    /\ NoExtrapFrame
    /\ NoFracFrame
    /\ NoIndexFrame
    /\ pc = StageOrder[1]
    /\ dx \in {RDiv(w, R(NI)) : w \in Widths}
    /\ \E sp \in StepSolids : nodal_solid_phi = ScaleArray(sp, dx)
    /\ u \in StepVelocityU
    /\ v \in StepVelocityV
    /\ particles \in StepParticles(dx)
    /\ t = RZero
    /\ dt \in DtSamples
    /\ substep = dt
    /\ calls = 1

NextStep == SubstepStages
SpecStep == InitStep /\ [][NextStep]_vars

(***************************************************************************)
(* Spec: a program that has called initialize and set_boundary and then    *)
(* makes add_particle and advance calls.  FairSpec adds that a running     *)
(* advance call keeps taking steps.                                        *)
(***************************************************************************)
SpecSolids == {SolidOpen, SolidBox}
SpecParticles(d) ==
    { <<RMul(Q(3, 2), d), RMul(Q(3, 2), d)>>,
      <<RNeg(d), RMul(Q(9, 2), d)>> }

Init ==
    /\ InitCommon
    /\ NoExtrapFrame
    /\ NoFracFrame
    /\ NoIndexFrame
    /\ pc = "idle"
    /\ dx \in {RDiv(w, R(NI)) : w \in Widths}
    /\ \E sp \in SpecSolids : nodal_solid_phi = ScaleArray(sp, dx)
    /\ u = ZeroArray(NI + 1, NJ)
    /\ v = ZeroArray(NI, NJ + 1)
    /\ particles = <<>>
    /\ t = RZero
    /\ dt = RZero
    /\ substep = RZero
    /\ calls = 0

\* The positions of a running advance call, and a step of the call: control
\* leaves the position it is at.  Every step of advance is such a step.
AdvancePositions == {"loop", "substep_end"} \cup {StageOrder[k] : k \in 1 .. Len(StageOrder)}
AdvanceSteps ==
    /\ pc \in AdvancePositions
    /\ pc' \in AdvancePositions \cup {"idle"}
    /\ pc' # pc

Next ==
    \/ \E position \in SpecParticles(dx) : AddParticle(position)
    \/ \E d \in DtSamples : AdvanceCall(d)
    \/ LoopEnter
    \/ SubstepStages
    \/ SubstepEnd
    \/ AdvanceReturn

Spec == Init /\ [][Next]_vars
FairSpec == Spec /\ WF_pc(AdvanceSteps)

(***************************************************************************)
(* SpecFraction: calls of fraction_inside on samples of both signs.        *)
(***************************************************************************)
PhiMax == 5
PhiSamples == {Q(k, 2) : k \in -PhiMax .. PhiMax}

NoSimulation ==
    /\ dx = Unused /\ u = Unused /\ v = Unused /\ nodal_solid_phi = Unused
    /\ u_valid = Unused /\ v_valid = Unused /\ liquid_phi = Unused
    /\ u_weights = Unused /\ v_weights = Unused
    /\ u_vol = Unused /\ v_vol = Unused /\ c_vol = Unused /\ n_vol = Unused
    /\ viscosity = Unused /\ particles = <<>>
    /\ matrix = Unused /\ rhs = Unused /\ pressure = Unused /\ success = TRUE
    /\ vmatrix = Unused /\ vrhs = Unused /\ velocities = Unused /\ vsuccess = TRUE
    /\ t = Unused /\ dt = Unused /\ substep = Unused /\ calls = 0
    /\ log = <<>> /\ stages = <<>>

InitFraction ==
    /\ NoSimulation
    /\ NoExtrapFrame
    /\ NoIndexFrame
    /\ pc = "fraction_inside"
    /\ fi_left \in PhiSamples
    /\ fi_right \in PhiSamples
    /\ fi_result = Unused

FractionInsideCall ==
    /\ pc = "fraction_inside"
    /\ fi_result' = fraction_inside(fi_left, fi_right)
    /\ pc' = "fraction_inside_returned"
    /\ UNCHANGED <<gridVars, velVars, phiVars, weightVars, volVars, validVars, pressureVars,
                   viscosityVars, loopVars, particles, log, stages, extrapVars,
                   fi_left, fi_right, indexVars>>

NextFraction == FractionInsideCall
SpecFraction == InitFraction /\ [][NextFraction]_vars

(***************************************************************************)
(* SpecExtrapolate: calls of extrapolate(grid, valid) on the arrays that   *)
(* advance hands it, one pass of the layers loop at a time.  The flags are *)
(* those solve_pressure can leave: u_valid is 0 in its first and last      *)
(* column and v_valid in its first and last row.  The grids are strips     *)
(* longer than the number of passes.                                       *)
(***************************************************************************)
StripLen == 14
StripWidth == 4

GridNi(g) == Cardinality({p[1] : p \in DOMAIN g})
GridNj(g) == Cardinality({p[2] : p \in DOMAIN g})

\* The faces the velocity update of solve_pressure visits.
StripUpdated(kind, p) ==
    IF kind = "u" THEN p[1] >= 1 /\ p[1] <= StripLen - 2
    ELSE p[2] >= 1 /\ p[2] <= StripLen - 2

StripIdx(kind) == IF kind = "u" THEN Idx(StripLen, StripWidth) ELSE Idx(StripWidth, StripLen)

\* No, one or two valid faces.
StripMasks(kind) ==
    LET S == {p \in StripIdx(kind) : StripUpdated(kind, p)}
    IN  {{}} \cup {{a, b} : a \in S, b \in S}

InitExtrapolate ==
    /\ NoSimulation
    /\ NoFracFrame
    /\ NoIndexFrame
    /\ pc = "extrapolate"
    /\ layers = 0
    /\ \E kind \in {"u", "v"} : \E m \in StripMasks(kind) :
          /\ valid = [p \in StripIdx(kind) |-> IF p \in m THEN 1 ELSE 0]
          /\ grid = [p \in StripIdx(kind) |->
                        IF p \in m \/ ~StripUpdated(kind, p) THEN R(1 + p[1] + 2 * p[2])
                        ELSE RZero]
    /\ valid0 = valid

ExtrapolatePassStep ==
    /\ pc = "extrapolate"
    /\ layers < ExtrapLayers
    /\ LET r == ExtrapolatePass(grid, valid, GridNi(grid), GridNj(grid))
       IN  grid' = r[1] /\ valid' = r[2]
    /\ layers' = layers + 1
    /\ UNCHANGED <<pc, gridVars, velVars, phiVars, weightVars, volVars, validVars,
                   pressureVars, viscosityVars, loopVars, particles, log, stages, valid0,
                   fracVars, indexVars>>

ExtrapolateReturn ==
    /\ pc = "extrapolate"
    /\ layers >= ExtrapLayers
    /\ pc' = "extrapolate_returned"
    /\ UNCHANGED <<gridVars, velVars, phiVars, weightVars, volVars, validVars,
                   pressureVars, viscosityVars, loopVars, particles, log, stages, extrapVars,
                   fracVars, indexVars>>

NextExtrapolate == ExtrapolatePassStep \/ ExtrapolateReturn
SpecExtrapolate == InitExtrapolate /\ [][NextExtrapolate]_vars

(***************************************************************************)
(* Properties of extrapolate.                                              *)
(***************************************************************************)
Manhattan(p, q) == Abs(p[1] - q[1]) + Abs(p[2] - q[2])

WithinLayers(p) ==
    \E q \in DOMAIN valid0 : valid0[q] # 0 /\ Manhattan(p, q) <= ExtrapLayers

\* C4: when extrapolate returns, every interior face of the array within
\* Manhattan distance 10 of a face that was valid when it was called is
\* marked valid.
C4_ExtrapolateReach ==
    pc = "extrapolate_returned" =>
        \A p \in DOMAIN valid :
            ExtrapInterior(p, GridNi(grid), GridNj(grid)) /\ WithinLayers(p)
                => valid[p] # 0

\* An interior face at distance exactly 10 from the nearest valid face was
\* filled by the call.
C4_Witness ==
    /\ pc = "extrapolate_returned"
    /\ \E p \in DOMAIN valid :
          /\ ExtrapInterior(p, GridNi(grid), GridNj(grid))
          /\ valid0[p] = 0 /\ valid[p] # 0
          /\ WithinLayers(p)
          /\ \A q \in DOMAIN valid0 : valid0[q] # 0 => Manhattan(p, q) >= ExtrapLayers

(***************************************************************************)
(* Properties of fraction_inside.                                          *)
(***************************************************************************)
MixedSigns == RIsNeg(fi_left) # RIsNeg(fi_right)

\* C5 (as stated): fraction_inside returns 1 when both inputs are negative,
\* 0 when both are non-negative, and a value strictly between 0 and 1 when
\* exactly one input is negative.
C5_FractionInsideStrict ==
    pc = "fraction_inside_returned" =>
        /\ RIsNeg(fi_left) /\ RIsNeg(fi_right) => fi_result = ROne
        /\ ~RIsNeg(fi_left) /\ ~RIsNeg(fi_right) => fi_result = RZero
        /\ MixedSigns => RLt(RZero, fi_result) /\ RLt(fi_result, ROne)

\* C5 (amended): with exactly one negative input the value is in (0, 1], and
\* it is 1 exactly when the non-negative input is 0.
C5_FractionInsideHalfOpen ==
    pc = "fraction_inside_returned" =>
        /\ RIsNeg(fi_left) /\ RIsNeg(fi_right) => fi_result = ROne
        /\ ~RIsNeg(fi_left) /\ ~RIsNeg(fi_right) => fi_result = RZero
        /\ MixedSigns =>
              /\ RLt(RZero, fi_result) /\ RLe(fi_result, ROne)
              /\ (fi_result = ROne <=> RIsZero(fi_left) \/ RIsZero(fi_right))

\* A call with a negative and a zero input has returned 1.
C5_Witness ==
    /\ pc = "fraction_inside_returned"
    /\ MixedSigns
    /\ RIsZero(fi_left) \/ RIsZero(fi_right)
    /\ fi_result = ROne

(***************************************************************************)
(* Properties of advance.                                                  *)
(***************************************************************************)
InSubstep == \E k \in 1 .. Len(StageOrder) : pc = StageOrder[k]

\* C1: advance(dt) terminates, and when it returns the accumulated sub-step
\* time equals dt exactly; every sub-step has size min(cfl(), dt - t), so
\* the sub-steps never overshoot dt.
C1_AdvanceConsumesDt ==
    /\ [](pc = StageOrder[1] => substep = RMin(cfl, RSub(dt, t)))
    /\ [](InSubstep \/ pc = "substep_end" =>
             RIsPos(substep) /\ RLe(RAdd(t, substep), dt))
    /\ [](pc = "loop" => RLe(t, dt))
    /\ [](pc = "idle" /\ calls > 0 => t = dt)
    /\ (pc = "loop" ~> pc = "idle")

\* A sub-step after the first is about to run, clipped to the time that
\* remains because cfl() would overshoot dt.
C1_Witness ==
    /\ pc = StageOrder[1]
    /\ RIsPos(t)
    /\ RLt(RSub(dt, t), cfl)
    /\ substep = RSub(dt, t)

\* C2: within a sub-step the stages run once each in the order particle
\* advection, compute_phi, velocity advection, force, viscosity solve,
\* pressure projection, extrapolation of u then v, solid constraint.
C2_StageOrder ==
    /\ pc = "substep_end" => stages = StageOrder
    /\ InSubstep => stages = SubSeq(StageOrder, 1, StageIndex(pc) - 1)

\* A sub-step after the first has run all its stages.
C2_Witness ==
    pc = "substep_end" /\ RIsPos(t) /\ stages = StageOrder /\ Len(particles) > 0

\* C3: advance never changes the number of particles or their order (the
\* k-th particle is moved in place by advect_particles and no other stage
\* touches it), and add_particle appends the position it is given.
C3_ParticlesKept ==
    [][ /\ pc = "advect_particles" =>
              /\ Len(particles') = Len(particles)
              /\ \A k \in 1 .. Len(particles) :
                    particles'[k] = MoveParticle(particles[k], substep)
        /\ pc # "advect_particles" /\ pc # "idle" => particles' = particles
        /\ pc = "idle" /\ particles' # particles =>
              /\ Len(particles') = Len(particles) + 1
              /\ SubSeq(particles', 1, Len(particles)) = particles
              /\ particles'[Len(particles')] \in SpecParticles(dx)
      ]_vars

OutsideDomain(position) ==
    \/ RIsNeg(position[1]) \/ RLt(RMul(R(NI), dx), position[1])
    \/ RIsNeg(position[2]) \/ RLt(RMul(R(NJ), dx), position[2])

\* Two particles were added, the second after an advance call and outside
\* the domain, and a further advance call has returned with both in place.
C3_Witness ==
    /\ pc = "idle" /\ calls = MaxCalls
    /\ Len(particles) = 2
    /\ OutsideDomain(particles[2])

(***************************************************************************)
(* Properties of constrain_velocity.                                       *)
(***************************************************************************)
UGradient(p) == SolidGradient(UFacePos(p[1], p[2]))
VGradient(p) == SolidGradient(VFacePos(p[1], p[2]))
UNormalComponent(p) ==
    dot(get_velocity(UFacePos(p[1], p[2])), normalize(UGradient(p)))
VNormalComponent(p) ==
    dot(get_velocity(VFacePos(p[1], p[2])), normalize(VGradient(p)))
NonZeroVector(a) == a[1][2] # 0 /\ a[2][2] # 0 /\ (a[1][1] # 0 \/ a[2][1] # 0)

AllSolid == \A p \in DOMAIN nodal_solid_phi : RIsNeg(nodal_solid_phi[p])
AfterProjection == pc = "extrapolate_u"

\* C7: with the solid distance negative at every node, apply_projection
\* leaves every pressure-stage face weight 0 and the velocity zero at
\* every face of both components.
C7_AllSolidProjection ==
    AfterProjection /\ AllSolid =>
        /\ \A p \in DOMAIN u : RIsZero(u_weights[p]) /\ RIsZero(u[p])
        /\ \A p \in DOMAIN v : RIsZero(v_weights[p]) /\ RIsZero(v[p])

\* apply_projection has run in an all-solid domain that holds particles.
C7_Witness ==
    AfterProjection /\ AllSolid /\ Len(particles) > 0 /\ RIsZero(u[<<1, 1>>])

\* C8 (as stated): whenever the solver reports failure, in the pressure
\* solve or in the viscosity solve, the core logs a warning.
Failures == (IF vsuccess THEN 0 ELSE 1) + (IF success THEN 0 ELSE 1)
C8_SolverFailureLogged == Len(log) >= Failures

\* C9 (as stated): the matrices handed to the solver are symmetric.
Symmetric(m) ==
    \A rc \in DOMAIN m : MGet(m, rc[1], rc[2]) = MGet(m, rc[2], rc[1])
C9_MatricesSymmetric == Symmetric(matrix) /\ Symmetric(vmatrix)

\* The face-weighted divergence of the cell (i, j) for face velocities uu, vv.
Divergence(uu, vv, i, j) ==
    RDiv(RAdd(RSub(RMul(u_weights[<<i + 1, j>>], uu[<<i + 1, j>>]),
                   RMul(u_weights[<<i, j>>], uu[<<i, j>>])),
              RSub(RMul(v_weights[<<i, j + 1>>], vv[<<i, j + 1>>]),
                   RMul(v_weights[<<i, j>>], vv[<<i, j>>]))),
         dx)

InteriorLiquid ==
    {c \in Idx(NI, NJ) :
        /\ c[1] >= 1 /\ c[1] <= NI - 2 /\ c[2] >= 1 /\ c[2] <= NJ - 2
        /\ RIsNeg(liquid_phi[c])}

\* The velocities of the update before they are rounded into u and v.
ExactUpdateU(prs, dt_) ==
    [p \in DOMAIN u |->
        IF ~UUpdated(p) THEN u[p]
        ELSE IF UFaceOpen(p[1], p[2]) THEN PressureUpdatedU(prs, dt_, p)
        ELSE RZero]
ExactUpdateV(prs, dt_) ==
    [p \in DOMAIN v |->
        IF ~VUpdated(p) THEN v[p]
        ELSE IF VFaceOpen(p[1], p[2]) THEN PressureUpdatedV(prs, dt_, p)
        ELSE RZero]

\* Four faces, each stored within half a step of the rounding grid.
DivergenceTolerance == RDiv(Q(2, RoundDen), dx)

\* C10: after apply_projection with a converged solve, the face-weighted
\* divergence of every interior liquid cell is zero for the velocities the
\* update computes, and within the rounding tolerance of zero for the
\* velocities it stores.
C10_DivergenceFree ==
    /\ pc = "solve_pressure" =>
          \A x \in SolverResults(PressureMatrix(substep), PressureRhs, NI * NJ) :
              SolverSuccess(PressureMatrix(substep), PressureRhs, x, NI * NJ) =>
                  \A c \in InteriorLiquid :
                      RIsZero(Divergence(ExactUpdateU(x, substep), ExactUpdateV(x, substep),
                                         c[1], c[2]))
    /\ AfterProjection /\ success =>
          \A c \in InteriorLiquid :
              RLe(RAbs(Divergence(u, v, c[1], c[2])), DivergenceTolerance)

\* A converged solve with a pressure that is not zero in a liquid cell.
C10_Witness ==
    /\ AfterProjection /\ success
    /\ \E c \in InteriorLiquid : ~RIsZero(pressure[c[1] + NI * c[2]])

(***************************************************************************)
(* Properties of the velocity update of solve_pressure.                    *)
(***************************************************************************)
\* The faces the update leaves out: u in the first and last column, v in
\* the first and last row.
UStripFace(p) == p[1] = 0 \/ p[1] = NI
VStripFace(p) == p[2] = 0 \/ p[2] = NJ

\* C11: solve_pressure marks a face outside the boundary strip valid
\* exactly when its weight is positive and one of its two cells has a
\* negative liquid distance; every other such face gets velocity 0 and is
\* marked invalid; a strip face is marked invalid and keeps its velocity.
C11_PressureValidity ==
    [][ pc = "solve_pressure" =>
          /\ \A p \in DOMAIN u :
                LET open == /\ RLt(RZero, u_weights[p])
                            /\ \/ RLt(liquid_phi[p], RZero)
                               \/ RLt(liquid_phi[<<p[1] - 1, p[2]>>], RZero)
                IN  IF UStripFace(p) THEN u_valid'[p] = 0 /\ u'[p] = u[p]
                    ELSE /\ u_valid'[p] = 1 <=> open
                         /\ ~open => u'[p] = RZero /\ u_valid'[p] = 0
          /\ \A p \in DOMAIN v :
                LET open == /\ RLt(RZero, v_weights[p])
                            /\ \/ RLt(liquid_phi[p], RZero)
                               \/ RLt(liquid_phi[<<p[1], p[2] - 1>>], RZero)
                IN  IF VStripFace(p) THEN v_valid'[p] = 0 /\ v'[p] = v[p]
                    ELSE /\ v_valid'[p] = 1 <=> open
                         /\ ~open => v'[p] = RZero /\ v_valid'[p] = 0
      ]_vars

\* solve_pressure has run and left a valid u face, and a u face of positive
\* weight between two cells without liquid that is zeroed and invalid.
C11_Witness ==
    /\ AfterProjection
    /\ \E p \in DOMAIN u : ~UStripFace(p) /\ u_valid[p] = 1 /\ ~RIsZero(u[p])
    /\ \E p \in DOMAIN u :
          /\ ~UStripFace(p) /\ RIsPos(u_weights[p])
          /\ ~RIsNeg(liquid_phi[p]) /\ ~RIsNeg(liquid_phi[<<p[1] - 1, p[2]>>])
          /\ u_valid[p] = 0 /\ RIsZero(u[p])

(***************************************************************************)
(* Properties of solve_viscosity.                                          *)
(***************************************************************************)
\* C12 (as stated): in solve_viscosity every FLUID face has an assembled
\* row with its diagonal set and the right-hand side volume fraction times
\* the face velocity; afterwards every FLUID face holds its solution entry
\* and every SOLID face holds zero.
C12_FluidFacesAssembled ==
    [][ pc = "solve_viscosity" =>
          /\ \A p \in DOMAIN u :
                LET index == u_ind(p[1], p[2])
                IN  IF u_state(p[1], p[2]) = FLUID
                    THEN /\ <<index, index>> \in DOMAIN vmatrix'
                         /\ vrhs'[index] = RMul(u_vol[p], u[p])
                         /\ u'[p] = velocities'[index]
                    ELSE u'[p] = RZero
          /\ \A p \in DOMAIN v :
                LET index == v_ind(p[1], p[2])
                IN  IF v_state(p[1], p[2]) = FLUID
                    THEN /\ <<index, index>> \in DOMAIN vmatrix'
                         /\ vrhs'[index] = RMul(v_vol[p], v[p])
                         /\ v'[p] = velocities'[index]
                    ELSE v'[p] = RZero
      ]_vars

(***************************************************************************)
(* Frame of one pass of extrapolate.                                       *)
(***************************************************************************)
\* The four grid neighbours of p that were valid at the start of the pass,
\* their number and the sum of their values at the start of the pass.
NbrTerm(q) == IF valid[q] # 0 THEN grid[q] ELSE RZero
NbrFlag(q) == IF valid[q] # 0 THEN 1 ELSE 0
NbrSum(p) ==
    RAdd(RAdd(RAdd(NbrTerm(<<p[1] + 1, p[2]>>), NbrTerm(<<p[1] - 1, p[2]>>)),
              NbrTerm(<<p[1], p[2] + 1>>)),
         NbrTerm(<<p[1], p[2] - 1>>))
NbrCount(p) ==
    NbrFlag(<<p[1] + 1, p[2]>>) + NbrFlag(<<p[1] - 1, p[2]>>)
        + NbrFlag(<<p[1], p[2] + 1>>) + NbrFlag(<<p[1], p[2] - 1>>)
BorderFace(p) ==
    p[1] = 0 \/ p[2] = 0 \/ p[1] = GridNi(grid) - 1 \/ p[2] = GridNj(grid) - 1

\* C13: a pass of extrapolate leaves border faces and valid faces as they
\* are, never clears a flag, leaves an invalid interior face without a
\* valid neighbour as it is, and gives an invalid interior face with valid
\* neighbours the average of their values at the start of the pass and
\* marks it valid.
C13_ExtrapolateFrame ==
    [][ pc = "extrapolate" /\ layers' = layers + 1 =>
          \A p \in DOMAIN grid :
              IF BorderFace(p) \/ valid[p] # 0 \/ NbrCount(p) = 0
              THEN grid'[p] = grid[p] /\ valid'[p] = valid[p]
              ELSE /\ valid'[p] = 1
                   /\ grid'[p] = RRound(RDiv(NbrSum(p), R(NbrCount(p))))
      ]_vars

\* After the first pass: an interior face between two valid faces of
\* different values holds their average and is valid, a face next to it
\* that was invalid with no valid neighbour is still invalid.
C13_Witness ==
    /\ pc = "extrapolate" /\ layers = 1
    /\ \E p \in DOMAIN grid :
          /\ ~BorderFace(p) /\ valid0[p] = 0 /\ valid[p] = 1
          /\ \E q1 \in DOMAIN grid, q2 \in DOMAIN grid :
                /\ Manhattan(p, q1) = 1 /\ Manhattan(p, q2) = 1
                /\ valid0[q1] # 0 /\ valid0[q2] # 0 /\ grid[q1] # grid[q2]
                /\ grid[p] = RDiv(RAdd(grid[q1], grid[q2]), R(2))
    /\ \E p \in DOMAIN grid : ~BorderFace(p) /\ valid[p] = 0 /\ RIsZero(grid[p])

(***************************************************************************)
(* Normal velocity on the boundary of the domain.                          *)
(***************************************************************************)
\* C14: at the end of a sub-step every u face at i = 0 or i = ni and every
\* v face at j = 0 or j = nj whose weight is not zero holds velocity 0.
C14_BoundaryNormalZero ==
    pc = "substep_end" =>
        /\ \A p \in DOMAIN u :
              UStripFace(p) /\ ~RIsZero(u_weights[p]) => u[p] = RZero
        /\ \A p \in DOMAIN v :
              VStripFace(p) /\ ~RIsZero(v_weights[p]) => v[p] = RZero

\* A sub-step has ended with open faces on the bottom and on the left
\* boundary holding zero while the faces next to them inside the domain
\* carry a velocity.
C14_Witness ==
    /\ pc = "substep_end"
    /\ \E p \in DOMAIN v :
          /\ p[2] = 0 /\ ~RIsZero(v_weights[p]) /\ v[p] = RZero
          /\ ~RIsZero(v[<<p[1], 1>>])
    /\ \E p \in DOMAIN u :
          /\ p[1] = 0 /\ ~RIsZero(u_weights[p]) /\ u[p] = RZero
          /\ ~RIsZero(u[<<1, p[2]>>])

(***************************************************************************)
(* SpecIndex: a walk through the loops of solve_viscosity and              *)
(* solve_pressure for grids of every size up to MaxSize, one iteration per *)
(* step, recording every array element and vector index the iteration      *)
(* uses.  The weights' signs and the outcome of a read outside an array    *)
(* are inputs of the step.                                                 *)
(***************************************************************************)
MaxSize == 4

UIndex(i, j) == i + j * (ni + 1)
VIndex(i, j) == i + j * ni + (ni + 1) * nj
IndexElts == (ni + 1) * nj + ni * (nj + 1)

\* The extent of each array and vector the two solves use.
Extent(name) ==
    CASE name \in {"u", "u_weights", "u_valid", "u_vol", "u_state"} -> <<ni + 1, nj>>
      [] name \in {"v", "v_weights", "v_valid", "v_vol", "v_state"} -> <<ni, nj + 1>>
      [] name \in {"liquid_phi", "viscosity", "c_vol"} -> <<ni, nj>>
      [] name \in {"nodal_solid_phi", "n_vol"} -> <<ni + 1, nj + 1>>
      [] name \in {"matrix", "rhs", "pressure"} -> <<ni * nj>>
      [] name \in {"vmatrix", "vrhs", "velocities"} -> <<IndexElts>>

\* liquid_phi(i, j) < 0; ub is what the comparison gives when the read is
\* outside the array.
LiquidNeg(i, j, ub) ==
    IF <<i, j>> \in DOMAIN liquid_phi THEN RLt(liquid_phi[<<i, j>>], RZero) ELSE ub

SolidAvgNeg(p, q, ub) ==
    IF p \in DOMAIN nodal_solid_phi /\ q \in DOMAIN nodal_solid_phi
    THEN RLe(RDiv(RAdd(nodal_solid_phi[p], nodal_solid_phi[q]), R(2)), RZero)
    ELSE ub

\* u_state(i, j) == FLUID and v_state(i, j) == FLUID, as the classification
\* loops fill the two arrays.
UFluid(i, j, ub) ==
    IF <<i, j>> \in Idx(ni + 1, nj)
    THEN ~(i - 1 < 0 \/ i >= ni \/ SolidAvgNeg(<<i, j + 1>>, <<i, j>>, ub))
    ELSE ub
VFluid(i, j, ub) ==
    IF <<i, j>> \in Idx(ni, nj + 1)
    THEN ~(j - 1 < 0 \/ j >= nj \/ SolidAvgNeg(<<i + 1, j>>, <<i, j>>, ub))
    ELSE ub

IndexLoopUpdateFromZero(name) ==
    CASE name = "classify_u" -> LoopSeq(0, ni, 0, nj - 1)
      [] name = "classify_v" -> LoopSeq(0, ni - 1, 0, nj)
      [] name = "rows_u" -> LoopSeq(1, ni - 2, 1, nj - 2)
      [] name = "rows_v" -> LoopSeq(1, ni - 2, 1, nj - 1)
      [] name = "write_u" -> LoopSeq(0, ni, 0, nj - 1)
      [] name = "write_v" -> LoopSeq(0, ni - 1, 0, nj)
      [] name = "rows_p" -> LoopSeq(1, ni - 2, 1, nj - 2)
      [] name = "update_u" -> LoopSeq(0, ni - 1, 0, nj - 1)
      [] name = "update_v" -> LoopSeq(0, ni - 1, 1, nj - 1)

\* The iterations of each loop, in the order the loop makes them.
IndexLoop(name) ==
    CASE name = "classify_u" -> LoopSeq(0, ni, 0, nj - 1)
      [] name = "classify_v" -> LoopSeq(0, ni - 1, 0, nj)
      [] name = "rows_u" -> LoopSeq(1, ni - 2, 1, nj - 2)
      [] name = "rows_v" -> LoopSeq(1, ni - 2, 1, nj - 1)
      [] name = "write_u" -> LoopSeq(0, ni, 0, nj - 1)
      [] name = "write_v" -> LoopSeq(0, ni - 1, 0, nj)
      [] name = "rows_p" -> LoopSeq(1, ni - 2, 1, nj - 2)
      [] name = "update_u" -> LoopSeq(1, ni - 1, 0, nj - 1)
      [] name = "update_v" -> LoopSeq(0, ni - 1, 1, nj - 1)

IndexLoopOrder ==
    <<"classify_u", "classify_v", "rows_u", "rows_v", "write_u", "write_v",
      "rows_p", "update_u", "update_v">>

\* Every iteration of a sub-step's two solves, in program order.
Walk ==
    Flatten([k \in 1 .. Len(IndexLoopOrder) |->
                LET name == IndexLoopOrder[k]
                    its == IndexLoop(name)
                IN  [n \in 1 .. Len(its) |-> <<name, its[n][1], its[n][2]>>]])

\* A neighbouring face in a row of the viscosity system: its state is
\* read, and its index is a column of the row when it is FLUID.
UNbr(i, j, ub) ==
    {<<"u_state", i, j>>} \cup (IF UFluid(i, j, ub) THEN {<<"vmatrix", UIndex(i, j)>>} ELSE {})
VNbr(i, j, ub) ==
    {<<"v_state", i, j>>} \cup (IF VFluid(i, j, ub) THEN {<<"vmatrix", VIndex(i, j)>>} ELSE {})

\* A neighbouring cell in a row of the pressure system.
PNbr(index, col, wi, wj, wname, vname, ci, cj, ub) ==
    {<<wname, wi, wj>>, <<vname, wi, wj>>, <<"liquid_phi", ci, cj>>,
     <<"matrix", index>>, <<"rhs", index>>}
        \cup (IF LiquidNeg(ci, cj, ub) THEN {<<"matrix", col>>} ELSE {})

\* The walk is about to make an iteration of the named loop.
AtLoop(name) ==
    /\ pc \in {"solve_viscosity", "solve_pressure"}
    /\ iter < Len(Walk)
    /\ Walk[iter + 1][1] = name

IndexStepTo(name, acc) ==
    /\ iter' = iter + 1
    /\ accessed' = acc
    /\ pc' = IF name \in {"rows_p", "update_u", "update_v"} THEN "solve_pressure"
             ELSE "solve_viscosity"
    /\ UNCHANGED <<gridVars, velVars, phiVars, weightVars, volVars, validVars, pressureVars,
                   viscosityVars, loopVars, particles, log, stages, extrapVars, fracVars,
                   ni, nj>>

ClassifyUIteration ==
    /\ AtLoop("classify_u")
    /\ LET i == Walk[iter + 1][2]
           j == Walk[iter + 1][3]
       IN  IndexStepTo("classify_u",
               {<<"u_state", i, j>>}
                   \cup (IF i - 1 < 0 \/ i >= ni THEN {}
                         ELSE {<<"nodal_solid_phi", i, j + 1>>, <<"nodal_solid_phi", i, j>>}))

ClassifyVIteration ==
    /\ AtLoop("classify_v")
    /\ LET i == Walk[iter + 1][2]
           j == Walk[iter + 1][3]
       IN  IndexStepTo("classify_v",
               {<<"v_state", i, j>>}
                   \cup (IF j - 1 < 0 \/ j >= nj THEN {}
                         ELSE {<<"nodal_solid_phi", i + 1, j>>, <<"nodal_solid_phi", i, j>>}))

RowUIteration ==
    /\ AtLoop("rows_u")
    /\ \E ub \in BOOLEAN :
          LET i == Walk[iter + 1][2]
              j == Walk[iter + 1][3]
          IN  IndexStepTo("rows_u",
                  {<<"u_state", i, j>>}
                      \cup (IF ~UFluid(i, j, ub) THEN {}
                            ELSE {<<"vrhs", UIndex(i, j)>>, <<"vmatrix", UIndex(i, j)>>,
                                  <<"u_vol", i, j>>, <<"u", i, j>>,
                                  <<"viscosity", i, j>>, <<"viscosity", i - 1, j>>,
                                  <<"viscosity", i - 1, j + 1>>, <<"viscosity", i, j + 1>>,
                                  <<"viscosity", i - 1, j - 1>>, <<"viscosity", i, j - 1>>,
                                  <<"c_vol", i, j>>, <<"c_vol", i - 1, j>>,
                                  <<"n_vol", i, j + 1>>, <<"n_vol", i, j>>}
                                 \cup UNbr(i + 1, j, ub) \cup UNbr(i - 1, j, ub)
                                 \cup UNbr(i, j + 1, ub) \cup UNbr(i, j - 1, ub)
                                 \cup VNbr(i, j + 1, ub) \cup VNbr(i - 1, j + 1, ub)
                                 \cup VNbr(i, j, ub) \cup VNbr(i - 1, j, ub)))

RowVIteration ==
    /\ AtLoop("rows_v")
    /\ \E ub \in BOOLEAN :
          LET i == Walk[iter + 1][2]
              j == Walk[iter + 1][3]
          IN  IndexStepTo("rows_v",
                  {<<"v_state", i, j>>}
                      \cup (IF ~VFluid(i, j, ub) THEN {}
                            ELSE {<<"vrhs", VIndex(i, j)>>, <<"vmatrix", VIndex(i, j)>>,
                                  <<"v_vol", i, j>>, <<"v", i, j>>,
                                  <<"viscosity", i, j>>, <<"viscosity", i, j - 1>>,
                                  <<"viscosity", i + 1, j - 1>>, <<"viscosity", i + 1, j>>,
                                  <<"viscosity", i - 1, j - 1>>, <<"viscosity", i - 1, j>>,
                                  <<"c_vol", i, j>>, <<"c_vol", i, j - 1>>,
                                  <<"n_vol", i + 1, j>>, <<"n_vol", i, j>>}
                                 \cup VNbr(i, j + 1, ub) \cup VNbr(i, j - 1, ub)
                                 \cup VNbr(i + 1, j, ub) \cup VNbr(i - 1, j, ub)
                                 \cup UNbr(i + 1, j, ub) \cup UNbr(i + 1, j - 1, ub)
                                 \cup UNbr(i, j, ub) \cup UNbr(i, j - 1, ub)))

WriteUIteration ==
    /\ AtLoop("write_u")
    /\ \E ub \in BOOLEAN :
          LET i == Walk[iter + 1][2]
              j == Walk[iter + 1][3]
          IN  IndexStepTo("write_u",
                  {<<"u_state", i, j>>, <<"u", i, j>>}
                      \cup (IF UFluid(i, j, ub) THEN {<<"velocities", UIndex(i, j)>>}
                            ELSE {}))

WriteVIteration ==
    /\ AtLoop("write_v")
    /\ \E ub \in BOOLEAN :
          LET i == Walk[iter + 1][2]
              j == Walk[iter + 1][3]
          IN  IndexStepTo("write_v",
                  {<<"v_state", i, j>>, <<"v", i, j>>}
                      \cup (IF VFluid(i, j, ub) THEN {<<"velocities", VIndex(i, j)>>}
                            ELSE {}))

RowPIteration ==
    /\ AtLoop("rows_p")
    /\ \E ub \in BOOLEAN :
          LET i == Walk[iter + 1][2]
              j == Walk[iter + 1][3]
              index == i + ni * j
          IN  IndexStepTo("rows_p",
                  {<<"rhs", index>>, <<"pressure", index>>, <<"liquid_phi", i, j>>}
                      \cup (IF ~LiquidNeg(i, j, ub) THEN {}
                            ELSE PNbr(index, index + 1, i + 1, j, "u_weights", "u",
                                      i + 1, j, ub)
                                 \cup PNbr(index, index - 1, i, j, "u_weights", "u",
                                           i - 1, j, ub)
                                 \cup PNbr(index, index + ni, i, j + 1, "v_weights", "v",
                                           i, j + 1, ub)
                                 \cup PNbr(index, index - ni, i, j, "v_weights", "v",
                                           i, j - 1, ub)))

\* wpos is u_weights(i, j) > 0; the || of the test reads the second cell
\* only when the first is not liquid.
UpdateUIteration ==
    /\ AtLoop("update_u")
    /\ \E wpos \in BOOLEAN, ub \in BOOLEAN :
          LET i == Walk[iter + 1][2]
              j == Walk[iter + 1][3]
              index == i + j * ni
          IN  IndexStepTo("update_u",
                  {<<"u_weights", i, j>>, <<"u", i, j>>}
                      \cup (IF ~wpos THEN {}
                            ELSE {<<"liquid_phi", i, j>>}
                                 \cup (IF LiquidNeg(i, j, ub) THEN {}
                                       ELSE {<<"liquid_phi", i - 1, j>>})
                                 \cup (IF LiquidNeg(i, j, ub) \/ LiquidNeg(i - 1, j, ub)
                                       THEN {<<"liquid_phi", i - 1, j>>,
                                             <<"pressure", index>>,
                                             <<"pressure", index - 1>>,
                                             <<"u_valid", i, j>>}
                                       ELSE {})))

UpdateVIteration ==
    /\ AtLoop("update_v")
    /\ \E wpos \in BOOLEAN, ub \in BOOLEAN :
          LET i == Walk[iter + 1][2]
              j == Walk[iter + 1][3]
              index == i + j * ni
          IN  IndexStepTo("update_v",
                  {<<"v_weights", i, j>>, <<"v", i, j>>}
                      \cup (IF ~wpos THEN {}
                            ELSE {<<"liquid_phi", i, j>>}
                                 \cup (IF LiquidNeg(i, j, ub) THEN {}
                                       ELSE {<<"liquid_phi", i, j - 1>>})
                                 \cup (IF LiquidNeg(i, j, ub) \/ LiquidNeg(i, j - 1, ub)
                                       THEN {<<"liquid_phi", i, j - 1>>,
                                             <<"pressure", index>>,
                                             <<"pressure", index - ni>>,
                                             <<"v_valid", i, j>>}
                                       ELSE {})))

\* Samples of the two level sets for a grid of any size: an open domain, a
\* domain of solid and a wall left of x = 3/2; liquid everywhere, nowhere
\* and in every other cell.
IndexSolids(a, b) ==
    {[p \in Idx(a + 1, b + 1) |-> R(1)], [p \in Idx(a + 1, b + 1) |-> R(-1)],
     [p \in Idx(a + 1, b + 1) |-> RSub(R(p[1]), Q(3, 2))]}
IndexLiquids(a, b) ==
    {[p \in Idx(a, b) |-> R(-1)], [p \in Idx(a, b) |-> R(1)],
     [p \in Idx(a, b) |-> IF (p[1] + p[2]) % 2 = 0 THEN R(-1) ELSE R(1)]}

InitIndex ==
    /\ pc = "solve_viscosity"
    /\ ni \in 1 .. MaxSize
    /\ nj \in 1 .. MaxSize
    /\ iter = 0
    /\ accessed = {}
    /\ nodal_solid_phi \in IndexSolids(ni, nj)
    /\ liquid_phi \in IndexLiquids(ni, nj)
    /\ dx = Unused /\ u = Unused /\ v = Unused
    /\ u_valid = Unused /\ v_valid = Unused
    /\ u_weights = Unused /\ v_weights = Unused
    /\ u_vol = Unused /\ v_vol = Unused /\ c_vol = Unused /\ n_vol = Unused
    /\ viscosity = Unused /\ particles = <<>>
    /\ matrix = Unused /\ rhs = Unused /\ pressure = Unused /\ success = TRUE
    /\ vmatrix = Unused /\ vrhs = Unused /\ velocities = Unused /\ vsuccess = TRUE
    /\ t = Unused /\ dt = Unused /\ substep = Unused /\ calls = 0
    /\ log = <<>> /\ stages = <<>>
    /\ NoExtrapFrame
    /\ NoFracFrame

NextIndex ==
    \/ ClassifyUIteration
    \/ ClassifyVIteration
    \/ RowUIteration
    \/ RowVIteration
    \/ WriteUIteration
    \/ WriteVIteration
    \/ RowPIteration
    \/ UpdateUIteration
    \/ UpdateVIteration
SpecIndex == InitIndex /\ [][NextIndex]_vars

(***************************************************************************)
(* Index and array bounds in the two solves.                               *)
(***************************************************************************)
InExtent(a) ==
    LET e == Extent(a[1])
    IN  /\ Len(a) = Len(e) + 1
        /\ \A k \in 1 .. Len(e) : a[k + 1] >= 0 /\ a[k + 1] < e[k]

\* C15: for every grid size, every element the loops of solve_viscosity
\* and solve_pressure use lies inside its array, every index handed to a
\* matrix or vector lies inside its size, u_ind maps the u faces below
\* (ni+1)*nj and v_ind maps the v faces from there up to the system size.
C15_IndicesInBounds ==
    pc \in {"solve_viscosity", "solve_pressure"} /\ ni >= 1 /\ nj >= 1 =>
        /\ \A a \in accessed : InExtent(a)
        /\ \A p \in Idx(ni + 1, nj) :
              UIndex(p[1], p[2]) >= 0 /\ UIndex(p[1], p[2]) < (ni + 1) * nj
        /\ \A p \in Idx(ni, nj + 1) :
              VIndex(p[1], p[2]) >= (ni + 1) * nj /\ VIndex(p[1], p[2]) < IndexElts

\* On the largest grid the row of the v face in the top row of cells and
\* the last visited column has read v_state on the top boundary and the
\* viscosity of the last column, and has columns for its own index and
\* for the u face to its upper right.
C15_Witness ==
    /\ pc = "solve_viscosity" /\ ni = MaxSize /\ nj = MaxSize
    /\ <<"vmatrix", VIndex(ni - 2, nj - 1)>> \in accessed
    /\ <<"v_state", ni - 2, nj>> \in accessed
    /\ <<"viscosity", ni - 1, nj - 1>> \in accessed
    /\ <<"vmatrix", UIndex(ni - 1, nj - 1)>> \in accessed

====
